---- MODULE Spec2Model ----
(***************************************************************************)
(* A model of sexp_parser.py: the tokenizer parseSexp, the tree model      *)
(* (Sexpression, SexpValueDict, SexpList), the dispatch engine SexpParser  *)
(* and the exporter.                                                       *)
(*                                                                         *)
(* Text is a sequence of one-character strings.  Python values that can    *)
(* be of several types are tagged records, one field name per type.        *)
(***************************************************************************)
EXTENDS Integers, Sequences, FiniteSets, TLC

VARIABLES
    \* parseSexp
    input,      \* the argument of parseSexp, one string
    sexp,       \* the joined text that the regular expression scans
    lines,      \* cumulative offset of each line end
    pos,        \* offset where re.finditer looks for the next match
    stack,      \* the lists still open
    out,        \* the list being accumulated
    pc,         \* "scan", "returned" or "raised"
    result,     \* the value parseSexp returns
    \* SexpParser.__init__ of the root node
    schema,     \* the class of the root: its handlers and _default_bools
    data,       \* the list-based S-expression being built
    i,          \* index of the next child in enumerate(data[2:])
    value,      \* self._value, a SexpValueDict
    err,        \* self._err
    hist,       \* per child: the rule logged, the action chosen, whether it raised
    bpc,        \* "idle", "loop", "done", "raised" or "queried"
    errors,     \* what getSexpError returned
    \* tokenize, build with the plain SexpParser, export, tokenize again
    rpc,        \* "idle", "call", "tokenized", "built", "exported", "reparsed", "raised"
    root,       \* the node SexpParser(parseSexp(input)) returned
    written,    \* the text exportSexp wrote
    again,      \* what parseSexp made of the written text
    \* a node used after its construction: insertions, assignments, deletions,
    \* lookups and exports
    parent,     \* the node; its _value is a SexpValueDict
    ops,        \* per call made on the node: what was passed and what came of it
    got         \* what the last lookup or export gave

tokVars == <<input, sexp, lines, pos, stack, out, pc, result>>

buildVars == <<schema, data, i, value, err, hist, bpc, errors>>

roundVars == <<rpc, root, written, again>>

nodeVars == <<parent, ops, got>>

vars == <<input, sexp, lines, pos, stack, out, pc, result,
          schema, data, i, value, err, hist, bpc, errors,
          rpc, root, written, again,
          parent, ops, got>>

(***************************************************************************)
(* Bounds                                                                  *)
(***************************************************************************)
MaxText == 5

TokAlphabet == {"(", ")", " ", "\n", "\"", "a"}

TextsUpTo(alphabet, n) == UNION {[1..m -> alphabet] : m \in 0..n}

(***************************************************************************)
(* Elements of the list-based S-expression                                 *)
(***************************************************************************)
LineElem(n) == [k |-> "line", n |-> n]
AtomElem(s) == [k |-> "atom", s |-> s]
ListElem(e) == [k |-> "list", e |-> e]

Last(s) == s[Len(s)]
Front(s) == SubSeq(s, 1, Len(s) - 1)

(***************************************************************************)
(* parseSexp: pre-processing of the lines                                  *)
(***************************************************************************)
IsSpace(c) == c \in {" ", "\n", "\t", "\r"}

FirstIndex(s, c) ==
    IF \E j \in 1..Len(s) : s[j] = c
    THEN CHOOSE j \in 1..Len(s) : s[j] = c /\ \A h \in 1..(j - 1) : s[h] # c
    ELSE 0

\* str.splitlines(False): the line breaks are dropped, and a final line break
\* opens no further line
RECURSIVE splitlines(_)
splitlines(s) ==
    IF s = <<>> THEN <<>>
    ELSE LET nl == FirstIndex(s, "\n")
         IN  IF nl = 0 THEN <<s>>
             ELSE <<SubSeq(s, 1, nl - 1)>> \o splitlines(SubSeq(s, nl + 1, Len(s)))

\* for l in iter(sexp): count += len(l); lines.append(count)
RECURSIVE LineEnds(_, _)
LineEnds(ls, count) ==
    IF ls = <<>> THEN <<>>
    ELSE <<count + Len(Head(ls))>> \o LineEnds(Tail(ls), count + Len(Head(ls)))

\* ''.join(sexp)
RECURSIVE join(_)
join(ls) == IF ls = <<>> THEN <<>> ELSE Head(ls) \o join(Tail(ls))

\* bisect.bisect_right(a, x), lo and hi zero-based
RECURSIVE bisect_right(_, _, _, _)
bisect_right(a, x, lo, hi) ==
    IF lo < hi
    THEN LET mid == (lo + hi) \div 2
         IN  IF x < a[mid + 1] THEN bisect_right(a, x, lo, mid)
             ELSE bisect_right(a, x, mid + 1, hi)
    ELSE lo

(***************************************************************************)
(* parseSexp.regex:  \s*(?: (?P<l>\() | (?P<r>\)) | (?P<q>"[^"]*") |       *)
(*                          (?P<s>[^(^)\s]+) )                             *)
(* Offsets are zero-based as in Python; s[p + 1] is the character at p.    *)
(***************************************************************************)
\* the end of the run of white space that starts at offset p
RECURSIVE SkipSpace(_, _)
SkipSpace(s, p) ==
    IF p < Len(s) /\ IsSpace(s[p + 1]) THEN SkipSpace(s, p + 1) ELSE p

\* [^(^)\s]
InSimple(c) == ~IsSpace(c) /\ c \notin {"(", "^", ")"}

RECURSIVE SimpleEnd(_, _)
SimpleEnd(s, p) ==
    IF p < Len(s) /\ InSimple(s[p + 1]) THEN SimpleEnd(s, p + 1) ELSE p

\* offset of the next double quote at or after p, or -1
RECURSIVE NextQuote(_, _)
NextQuote(s, p) ==
    IF p >= Len(s) THEN -1
    ELSE IF s[p + 1] = "\"" THEN p ELSE NextQuote(s, p + 1)

NoMatch == [found |-> FALSE]

\* the match of the pattern that starts exactly at offset p, if there is one
MatchAt(s, p) ==
    LET w == SkipSpace(s, p)
    IN  IF w >= Len(s) THEN NoMatch
        ELSE LET c == s[w + 1]
             IN  IF c = "(" THEN
                     [found |-> TRUE, start |-> p, end |-> w + 1, term |-> "l",
                      value |-> <<c>>]
                 ELSE IF c = ")" THEN
                     [found |-> TRUE, start |-> p, end |-> w + 1, term |-> "r",
                      value |-> <<c>>]
                 ELSE IF c = "\"" /\ NextQuote(s, w + 1) >= 0 THEN
                     [found |-> TRUE, start |-> p, end |-> NextQuote(s, w + 1) + 1,
                      term |-> "q",
                      value |-> SubSeq(s, w + 1, NextQuote(s, w + 1) + 1)]
                 ELSE IF InSimple(c) THEN
                     [found |-> TRUE, start |-> p, end |-> SimpleEnd(s, w),
                      term |-> "s", value |-> SubSeq(s, w + 1, SimpleEnd(s, w))]
                 ELSE NoMatch

\* re.finditer: the first match at or after offset p
RECURSIVE finditer(_, _)
finditer(s, p) ==
    IF p > Len(s) THEN NoMatch
    ELSE IF MatchAt(s, p).found THEN MatchAt(s, p)
    ELSE finditer(s, p + 1)

(***************************************************************************)
(* parseSexp: the loop body, one operator per branch                       *)
(***************************************************************************)
\* assert stack, "Trouble with nesting of brackets" (right bracket)
AssertStack(st) == st # <<>>

\* assert not stack, "Trouble with nesting of brackets" (end of input)
AssertNotStackOff(st) == TRUE
AssertNotStack(st) == st = <<>>

\* tmpout, out = out, stack.pop(-1); out.append(tmpout)
PopAppend(st, o) == Append(Last(st), ListElem(o))

\* if not out: out.append(bisect_right(lines, start)); out.append(value)
AppendAtom(o, ls, m) ==
    IF o = <<>>
    THEN <<LineElem(bisect_right(ls, m.start, 0, Len(ls))), AtomElem(m.value)>>
    ELSE Append(o, AtomElem(m.value))

\* if not out: return []; return out[0]
ReturnValue(o) == IF o = <<>> THEN ListElem(<<>>) ELSE o[1]

NoResult == [k |-> "none"]

(***************************************************************************)
(* The scanner's state as a record, and the loop body of parseSexp         *)
(***************************************************************************)
ScanStart ==
    [pos |-> 0, stack |-> <<>>, out |-> <<>>, pc |-> "scan", result |-> NoResult]

\* term == 'l': stack.append(out); out = []
OnLeft(t, m) == [t EXCEPT !.stack = Append(t.stack, t.out), !.out = <<>>,
                          !.pos = m.end]

\* term == 'r'
OnRight(t, m) ==
    IF AssertStack(t.stack)
    THEN [t EXCEPT !.out = PopAppend(t.stack, t.out), !.stack = Front(t.stack),
                   !.pos = m.end]
    ELSE [t EXCEPT !.pc = "raised"]

\* term == 'q' or term == 's'
OnAtom(t, ls, m) == [t EXCEPT !.out = AppendAtom(t.out, ls, m), !.pos = m.end]

\* after the loop
OnEnd(t) ==
    IF AssertNotStack(t.stack)
    THEN [t EXCEPT !.pc = "returned", !.result = ReturnValue(t.out)]
    ELSE [t EXCEPT !.pc = "raised"]

ScanStep(s, ls, t) ==
    LET m == finditer(s, t.pos)
    IN  IF ~m.found THEN OnEnd(t)
        ELSE IF m.term = "l" THEN OnLeft(t, m)
        ELSE IF m.term = "r" THEN OnRight(t, m)
        ELSE OnAtom(t, ls, m)

RECURSIVE ScanAll(_, _, _)
ScanAll(s, ls, t) == IF t.pc # "scan" THEN t ELSE ScanAll(s, ls, ScanStep(s, ls, t))

\* parseSexp(sexp) for a string argument: its final state, with pc "returned"
\* (result holds the value) or "raised"
parseSexp(str) ==
    ScanAll(join(splitlines(str)), LineEnds(splitlines(str), 0), ScanStart)

(***************************************************************************)
(* parseSexp as a state machine: one action per regular-expression match   *)
(***************************************************************************)
Scanner == [pos |-> pos, stack |-> stack, out |-> out, pc |-> pc, result |-> result]

SetScanner(t) ==
    /\ pos' = t.pos
    /\ stack' = t.stack
    /\ out' = t.out
    /\ pc' = t.pc
    /\ result' = t.result

TokInit ==
    /\ input \in TextsUpTo(TokAlphabet, MaxText)
    /\ sexp = join(splitlines(input))
    /\ lines = LineEnds(splitlines(input), 0)
    /\ pos = 0
    /\ stack = <<>>
    /\ out = <<>>
    /\ pc = "scan"
    /\ result = NoResult
    /\ schema = NoResult /\ data = NoResult /\ i = 0 /\ value = NoResult
    /\ err = <<>> /\ hist = <<>> /\ bpc = "idle" /\ errors = <<>>
    /\ rpc = "idle" /\ root = NoResult /\ written = <<>> /\ again = NoResult
    /\ parent = NoResult /\ ops = <<>> /\ got = NoResult

Left ==
    /\ pc = "scan"
    /\ finditer(sexp, pos).found
    /\ finditer(sexp, pos).term = "l"
    /\ SetScanner(OnLeft(Scanner, finditer(sexp, pos)))
    /\ UNCHANGED <<input, sexp, lines, buildVars, roundVars, nodeVars>>

Right ==
    /\ pc = "scan"
    /\ finditer(sexp, pos).found
    /\ finditer(sexp, pos).term = "r"
    /\ SetScanner(OnRight(Scanner, finditer(sexp, pos)))
    /\ UNCHANGED <<input, sexp, lines, buildVars, roundVars, nodeVars>>

Atom ==
    /\ pc = "scan"
    /\ finditer(sexp, pos).found
    /\ finditer(sexp, pos).term \in {"q", "s"}
    /\ SetScanner(OnAtom(Scanner, lines, finditer(sexp, pos)))
    /\ UNCHANGED <<input, sexp, lines, buildVars, roundVars, nodeVars>>

EndOfInput ==
    /\ pc = "scan"
    /\ ~finditer(sexp, pos).found
    /\ SetScanner(OnEnd(Scanner))
    /\ UNCHANGED <<input, sexp, lines, buildVars, roundVars, nodeVars>>

TokNext == Left \/ Right \/ Atom \/ EndOfInput

Spec == TokInit /\ [][TokNext]_vars

(***************************************************************************)
(* Properties of parseSexp                                                 *)
(***************************************************************************)
\* every match of the pattern in s from offset p on, in order
RECURSIVE Matches(_, _)
Matches(s, p) ==
    IF finditer(s, p).found
    THEN <<finditer(s, p)>> \o Matches(s, finditer(s, p).end)
    ELSE <<>>

\* left brackets minus right brackets among the first n matches
RECURSIVE Opened(_, _)
Opened(ms, n) ==
    IF n = 0 THEN 0
    ELSE Opened(ms, n - 1)
         + (IF ms[n].term = "l" THEN 1 ELSE IF ms[n].term = "r" THEN -1 ELSE 0)

\* how many matches end at or before offset p: those the scanner has consumed
ConsumedBy(ms, p) == Cardinality({n \in 1..Len(ms) : ms[n].end <= p})

\* the brackets balance, those inside a quoted string (a q match) aside
BalancedMatches(ms) ==
    /\ \A n \in 0..Len(ms) : Opened(ms, n) >= 0
    /\ Opened(ms, Len(ms)) = 0

HasBracket(str) == \E j \in 1..Len(str) : str[j] \in {"(", ")"}

\* C8: parseSexp raises exactly when the brackets of its input do not balance
\* (brackets inside double-quoted strings not counted): it raises at a right
\* bracket met with an empty stack and at the end of input with a non-empty
\* stack, returns for every balanced input, and the depth of the stack is at
\* every step the number of lists currently open.
C8_RaisesIffUnbalanced ==
    LET ms == Matches(sexp, 0)
        next == finditer(sexp, pos)
    IN  /\ Len(stack) = Opened(ms, ConsumedBy(ms, pos))
        /\ pc = "returned" => BalancedMatches(ms) /\ result # NoResult
        /\ pc = "raised" =>
              /\ ~BalancedMatches(ms)
              /\ \/ next.found /\ next.term = "r" /\ stack = <<>>
                 \/ ~next.found /\ stack # <<>>

\* a balanced input with a bracket inside a quoted string and a closed list
\* has been tokenized
C8_Witness ==
    /\ pc = "returned"
    /\ result.k = "list"
    /\ \E n \in 1..Len(Matches(sexp, 0)) :
          /\ Matches(sexp, 0)[n].term = "q"
          /\ HasBracket(Matches(sexp, 0)[n].value)

\* the token tree without its line numbers
RECURSIVE StripLines(_)
StripLines(el) ==
    IF el.k = "line" THEN LineElem(0)
    ELSE IF el.k = "list"
         THEN ListElem([j \in 1..Len(el.e) |-> StripLines(el.e[j])])
         ELSE el

\* the text with each line break replaced by a space
BreaksToSpaces(str) == [j \in 1..Len(str) |-> IF str[j] = "\n" THEN " " ELSE str[j]]

\* C9: white space of any kind separates atoms: tokenizing a multi-line
\* string yields the same atoms and nesting as tokenizing the same text with
\* each line break replaced by a space.
C9_LineBreakSeparates ==
    pc \in {"returned", "raised"} =>
        LET other == parseSexp(BreaksToSpaces(input))
        IN  /\ other.pc = pc
            /\ pc = "returned" => StripLines(other.result) = StripLines(result)

\* every list of the token tree is [line, key, child...]
RECURSIVE WellFormed(_)
WellFormed(el) ==
    el.k = "list" =>
        /\ Len(el.e) >= 2
        /\ el.e[1].k = "line"
        /\ el.e[2].k = "atom"
        /\ \A j \in 3..Len(el.e) : el.e[j].k # "line" /\ WellFormed(el.e[j])

\* C10: every list in the output of parseSexp has the form
\* [line, key, child...]: an integer line number first, an atom second.
C10_ListsHaveLineAndKey ==
    pc = "returned" /\ finditer(sexp, 0).found => WellFormed(result)

(***************************************************************************)
(* Python values.  _key is None, an int or a str; _value is None, a        *)
(* scalar, a Python list, a SexpValueDict, or (in a SexpList) a list of    *)
(* nodes.  A list-based S-expression used as a value is kept raw.          *)
(***************************************************************************)
None == [t |-> "none"]
IntVal(n) == [t |-> "int", n |-> n]
StrVal(s) == [t |-> "str", s |-> s]
FloatVal(neg, ip, fd) == [t |-> "float", neg |-> neg, ip |-> ip, fd |-> fd]
BoolVal(b) == [t |-> "bool", b |-> b]
ListVal(items) == [t |-> "pylist", items |-> items]
RawVal(el) == [t |-> "raw", el |-> el]
NodesVal(items) == [t |-> "nodes", items |-> items]
EmptyDict == [t |-> "dict", items |-> <<>>, idx |-> 0]

\* the Python value of one element of a list-based S-expression
ValueOf(el) == IF el.k = "atom" THEN StrVal(el.s) ELSE RawVal(el)

Sexpression(key, val) == [cls |-> "Sexpression", key |-> key, value |-> val]

\* outcomes of a call: a returned value or a raised exception
Return(v) == [raised |-> FALSE, ret |-> v]
Raise(m) == [raised |-> TRUE, msg |-> m]

(***************************************************************************)
(* SexpList                                                                *)
(***************************************************************************)
\* an append that keeps only what is appended last
ListAppendLast(key, items, sx) == [raised |-> FALSE, items |-> sx]

\* SexpList._append: a SexpList is flattened, a node of another key refused.
\* Yields the items after the call and whether it raised.
RECURSIVE ListAppend(_, _, _)
ListAppend(key, items, sx) ==
    IF sx = <<>> THEN [raised |-> FALSE, items |-> items]
    ELSE LET x == Head(sx)
         IN  IF x.cls = "SexpList"
             THEN ListAppend(key, items, x.value.items \o Tail(sx))
             ELSE IF x.key # key
                  THEN [raised |-> TRUE, msg |-> "expecting key", items |-> items]
                  ELSE ListAppend(key, Append(items, x), Tail(sx))

\* SexpList(key, [nodes]) for nodes the constructor accepts
SexpList(key, nodes) ==
    [cls |-> "SexpList", key |-> key,
     value |-> NodesVal(ListAppend(key, <<>>, nodes).items)]

(***************************************************************************)
(* SexpValueDict                                                           *)
(***************************************************************************)
\* a list cannot be a key of a dict
Hashable(key) == key.t # "raw"

HasKey(d, key) == \E j \in 1..Len(d.items) : d.items[j].key = key

GetItem(d, key) == d.items[CHOOSE j \in 1..Len(d.items) : d.items[j].key = key].node

\* OrderedDict.__setitem__: a key already present keeps its place
SetItem(d, key, node) ==
    IF HasKey(d, key)
    THEN [d EXCEPT !.items = [j \in 1..Len(d.items) |->
                                 IF d.items[j].key = key
                                 THEN [key |-> key, node |-> node]
                                 ELSE d.items[j]]]
    ELSE [d EXCEPT !.items = Append(d.items, [key |-> key, node |-> node])]

\* SexpValueDict.add(sexp, action): the dict after the call, and whether it
\* raised.  The positional index is consumed before anything can raise.
\* if action==2 (a key not yet present): wrap the node in a SexpList
WrapsNever(action) == FALSE
WrapsFirst(action) == action = 2

\* if action==1 (a key already present): raise KeyError
RaisesNever(action) == FALSE
RaisesOnDuplicate(action) == action = 1

add(d, node0, action) ==
    LET node == IF node0.key = None THEN [node0 EXCEPT !.key = IntVal(d.idx)] ELSE node0
        d1 == IF node0.key = None THEN [d EXCEPT !.idx = d.idx + 1] ELSE d
    IN  IF ~Hashable(node.key) THEN [raised |-> TRUE, msg |-> "unhashable", d |-> d1]
        ELSE IF action = 0 THEN [raised |-> FALSE, d |-> SetItem(d1, node.key, node)]
        ELSE IF ~HasKey(d1, node.key)
             THEN [raised |-> FALSE,
                   d |-> SetItem(d1, node.key,
                                 IF WrapsFirst(action) THEN SexpList(node.key, <<node>>)
                                 ELSE node)]
        ELSE IF RaisesOnDuplicate(action)
             THEN [raised |-> TRUE, msg |-> "duplicate key", d |-> d1]
        ELSE IF action # 2 /\ action # 3
             THEN [raised |-> TRUE, msg |-> "unknown action", d |-> d1]
        ELSE LET v == GetItem(d1, node.key)
             IN  IF v.cls = "SexpList"
                 THEN LET a == ListAppend(v.key, v.value.items, <<node>>)
                      IN  [raised |-> a.raised,
                           msg |-> IF a.raised THEN a.msg ELSE "",
                           d |-> SetItem(d1, node.key,
                                         [v EXCEPT !.value = NodesVal(a.items)])]
                 ELSE [raised |-> FALSE,
                       d |-> SetItem(d1, node.key, SexpList(node.key, <<v, node>>))]

(***************************************************************************)
(* Value coercion: int() and float() of an atom, and their str()           *)
(* Signs and one decimal point are modelled; exponents, inf and nan are    *)
(* outside the alphabets of the inputs.                                    *)
(***************************************************************************)
Digits == <<"0", "1", "2", "3", "4", "5", "6", "7", "8", "9">>

IsDigit(c) == \E d \in 1..Len(Digits) : Digits[d] = c

DigitValue(c) == (CHOOSE d \in 1..Len(Digits) : Digits[d] = c) - 1

AllDigits(s) == \A j \in 1..Len(s) : IsDigit(s[j])

RECURSIVE DigitsValue(_)
DigitsValue(s) ==
    IF s = <<>> THEN 0 ELSE 10 * DigitsValue(Front(s)) + DigitValue(Last(s))

Unsigned(s) == IF s # <<>> /\ s[1] \in {"+", "-"} THEN Tail(s) ELSE s

IsNegative(s) == s # <<>> /\ s[1] = "-"

\* int(s)
pyInt(s) ==
    IF Unsigned(s) # <<>> /\ AllDigits(Unsigned(s))
    THEN Return(IntVal((IF IsNegative(s) THEN -1 ELSE 1) * DigitsValue(Unsigned(s))))
    ELSE Raise("invalid literal for int()")

RECURSIVE StripZeros(_)
StripZeros(s) == IF s # <<>> /\ Last(s) = "0" THEN StripZeros(Front(s)) ELSE s

\* float(s): the integer part and the digits of the fraction without their
\* trailing zeros
pyFloat(s) ==
    LET u == Unsigned(s)
        dot == FirstIndex(u, ".")
        ip == IF dot = 0 THEN u ELSE SubSeq(u, 1, dot - 1)
        fp == IF dot = 0 THEN <<>> ELSE SubSeq(u, dot + 1, Len(u))
    IN  IF AllDigits(ip) /\ AllDigits(fp) /\ ip \o fp # <<>>
        THEN Return(FloatVal(IsNegative(s), DigitsValue(ip), StripZeros(fp)))
        ELSE Raise("could not convert string to float")

RECURSIVE FormatNat(_)
FormatNat(n) ==
    IF n < 10 THEN <<Digits[n + 1]>>
    ELSE FormatNat(n \div 10) \o <<Digits[(n % 10) + 1]>>

\* '{}'.format(v) of a scalar
Format(v) ==
    IF v.t = "int"
    THEN (IF v.n < 0 THEN <<"-">> \o FormatNat(-v.n) ELSE FormatNat(v.n))
    ELSE IF v.t = "float"
    THEN (IF v.neg THEN <<"-">> ELSE <<>>) \o FormatNat(v.ip) \o <<".">>
         \o (IF v.fd = <<>> THEN <<"0">> ELSE v.fd)
    ELSE IF v.t = "bool"
    THEN (IF v.b THEN <<"T", "r", "u", "e">> ELSE <<"F", "a", "l", "s", "e">>)
    ELSE IF v.t = "none" THEN <<"N", "o", "n", "e">>
    ELSE v.s

\* try int(v), then float(v), then v itself
Coerce(s) ==
    IF ~pyInt(s).raised THEN pyInt(s).ret
    ELSE IF ~pyFloat(s).raised THEN pyFloat(s).ret
    ELSE StrVal(s)

(***************************************************************************)
(* Indexing a str or a list, as data[1], data[2:] and len(data) do         *)
(***************************************************************************)
PyLen(el) == IF el.k = "atom" THEN Len(el.s) ELSE Len(el.e)

\* el[j], j zero-based and below len(el)
PyItem(el, j) == IF el.k = "atom" THEN AtomElem(<<el.s[j + 1]>>) ELSE el.e[j + 1]

\* el[2:] as a sequence of elements
PyFrom2(el) ==
    IF el.k = "atom"
    THEN [j \in 1..(Len(el.s) - 2) |-> AtomElem(<<el.s[j + 2]>>)]
    ELSE SubSeq(el.e, 3, Len(el.e))

\* an element used as a _key
KeyOf(el) ==
    IF el.k = "atom" THEN StrVal(el.s)
    ELSE IF el.k = "line" THEN IntVal(el.n)
    ELSE RawVal(el)

(***************************************************************************)
(* Parser helper functions                                                 *)
(***************************************************************************)
\* parseAtom(obj, sexp)
parseAtom(el) ==
    IF el.k # "atom" THEN Raise("expects an atom")
    ELSE Return(Sexpression(None, StrVal(el.s)))

\* parseCopy(obj, sexp, checkLen): Sexpression(sexp[1], sexp[2:])
parseCopy(el, checkLen) ==
    IF PyLen(el) # checkLen + 2 THEN Raise("len")
    ELSE Return(Sexpression(KeyOf(PyItem(el, 1)),
                            IF el.k = "atom" THEN StrVal(SubSeq(el.s, 3, Len(el.s)))
                            ELSE ListVal([j \in 1..(Len(el.e) - 2) |->
                                             ValueOf(el.e[j + 2])])))

parseCopy1(el) == parseCopy(el, 1)

\* SexpDefaultTrue(data, value)
SexpDefaultTrue(el, b) ==
    IF el.k # "atom" THEN Raise("invalid boolean data")
    ELSE Return([cls |-> "SexpDefaultTrue", key |-> StrVal(el.s), value |-> BoolVal(b)])

(***************************************************************************)
(* A class of parser: SexpParser or a subclass of it.                      *)
(*   pos     the indices i with a _pos<i>_parse (parseAtom)                *)
(*   parse1  the keys k with a _parse1_<k> (parseCopy1)                    *)
(*   parse   the keys k with a _parse_<k> (the class itself, nested)       *)
(*   bools   _default_bools, in the order its set iterates                 *)
(*   strict  _parse is overridden to raise KeyError('unknown key')         *)
(***************************************************************************)
PlainSexpParser ==
    [pos |-> {}, parse1 |-> {}, parse |-> {}, bools |-> <<>>, strict |-> FALSE]

Range(f) == {f[x] : x \in DOMAIN f}

\* getattr(self, name, None) is not None, for a sub-key that may be a list
HasAttr(keys, subkey) == subkey.t = "str" /\ subkey.s \in keys

\* the search for a sub-parser; a sub-key that is a list cannot be looked up
\* in the set of _default_bools
ResolveGroupFirst(cls, j, subkey) ==
    IF j \in cls.pos THEN [raised |-> FALSE, rule |-> 1, parse |-> "parseAtom", action |-> 3]
    ELSE IF HasAttr(cls.parse, subkey)
    THEN [raised |-> FALSE, rule |-> 3, parse |-> "class", action |-> 2]
    ELSE IF HasAttr(cls.parse1, subkey)
    THEN [raised |-> FALSE, rule |-> 2, parse |-> "parseCopy1", action |-> 1]
    ELSE IF cls.bools # <<>> /\ ~Hashable(subkey)
    THEN [raised |-> TRUE, rule |-> 4, msg |-> "unhashable", action |-> 2]
    ELSE IF cls.bools # <<>> /\ subkey.s \in Range(cls.bools)
    THEN [raised |-> FALSE, rule |-> 4, parse |-> "SexpDefaultTrue", action |-> 1]
    ELSE [raised |-> FALSE, rule |-> 5, parse |-> "_parse", action |-> 3]

Resolve(cls, j, subkey) ==
    IF j \in cls.pos THEN [raised |-> FALSE, rule |-> 1, parse |-> "parseAtom", action |-> 3]
    ELSE IF HasAttr(cls.parse1, subkey)
    THEN [raised |-> FALSE, rule |-> 2, parse |-> "parseCopy1", action |-> 1]
    ELSE IF HasAttr(cls.parse, subkey)
    THEN [raised |-> FALSE, rule |-> 3, parse |-> "class", action |-> 2]
    ELSE IF cls.bools # <<>> /\ ~Hashable(subkey)
    THEN [raised |-> TRUE, rule |-> 4, msg |-> "unhashable", action |-> 2]
    ELSE IF cls.bools # <<>> /\ subkey.s \in Range(cls.bools)
    THEN [raised |-> FALSE, rule |-> 4, parse |-> "SexpDefaultTrue", action |-> 1]
    ELSE [raised |-> FALSE, rule |-> 5, parse |-> "_parse", action |-> 3]

\* subkey = entry if it is not a list, else entry[1]
Subkey(entry) ==
    IF entry.k # "list" THEN Return(KeyOf(entry))
    ELSE IF Len(entry.e) < 2 THEN Raise("list index out of range")
    ELSE Return(KeyOf(entry.e[2]))

\* the tuple appended to self._err
ErrorOf(msg, entry, dat) ==
    [msg |-> msg, entry |-> entry, data |-> IF entry.k = "atom" THEN <<dat>> ELSE <<>>]

\* except Exception as e
ExceptHandlerOnly(msg) == msg # "duplicate key"
Except(msg) == TRUE

(***************************************************************************)
(* SexpParser.__init__ and parseDefault                                    *)
(***************************************************************************)
RECURSIVE SexpParser(_, _)
RECURSIVE Loop(_, _, _, _, _)

\* parseDefault(obj, sexp).  SexpBool(self, sexp) always fails on the unbound
\* name self, which the bare except swallows.
parseDefault(el) ==
    IF el.k = "atom" THEN Return(Sexpression(None, Coerce(el.s)))
    ELSE IF Len(el.e) < 2 THEN Raise("no key")
    ELSE IF \E j \in 3..Len(el.e) : el.e[j].k = "list"
    THEN SexpParser(PlainSexpParser, el)
    ELSE LET vals == [j \in 1..(Len(el.e) - 2) |-> Coerce(el.e[j + 2].s)]
         IN  Return(Sexpression(KeyOf(el.e[2]),
                                IF Len(vals) = 0 THEN None
                                ELSE IF Len(vals) = 1 THEN vals[1]
                                ELSE ListVal(vals)))

\* self._parse(i, entry)
Parse(cls, el) == IF cls.strict THEN Raise("unknown key") ELSE parseDefault(el)

\* ret = parse(entry)
Call(cls, parse, entry) ==
    IF parse = "parseAtom" THEN parseAtom(entry)
    ELSE IF parse = "parseCopy1" THEN parseCopy1(entry)
    ELSE IF parse = "class" THEN SexpParser(cls, entry)
    ELSE IF parse = "SexpDefaultTrue" THEN SexpDefaultTrue(entry, TRUE)
    ELSE Parse(cls, entry)

\* what one turn of the loop leaves: the node's dict and error list, what was
\* resolved, whether the turn raised and whether the exception escaped
Caught(self, dat, entry, msg, rule, action) ==
    IF Except(msg)
    THEN [value |-> self.value, err |-> Append(self.err, ErrorOf(msg, entry, dat)),
          rule |-> rule, action |-> action, raised |-> TRUE, escaped |-> FALSE]
    ELSE [value |-> self.value, err |-> self.err,
          rule |-> rule, action |-> action, raised |-> TRUE, escaped |-> TRUE]

\* a turn of the loop that raised nothing
Turn(d, self, r) ==
    [value |-> d, err |-> self.err, rule |-> r.rule, action |-> r.action,
     raised |-> FALSE, escaped |-> FALSE]

\* self._value.add(ret, action) was called
Stored(dat, self, entry, r, a) ==
    IF a.raised
    THEN Caught([self EXCEPT !.value = a.d], dat, entry, a.msg, r.rule, r.action)
    ELSE Turn(a.d, self, r)

\* ret = parse(entry) was called;  if ret is not None: self._value.add(ret, action)
Called(dat, self, entry, r, call) ==
    IF call.raised THEN Caught(self, dat, entry, call.msg, r.rule, r.action)
    ELSE IF call.ret = None THEN Turn(self.value, self, r)
    ELSE Stored(dat, self, entry, r, add(self.value, call.ret, r.action))

\* the sub-parser was searched for
Resolved(cls, dat, self, entry, r) ==
    IF r.raised THEN Caught(self, dat, entry, r.msg, r.rule, r.action)
    ELSE Called(dat, self, entry, r, Call(cls, r.parse, entry))

\* the sub-key was taken from the entry
Keyed(cls, dat, self, j, entry, sub) ==
    IF sub.raised THEN Caught(self, dat, entry, sub.msg, 0, 0)
    ELSE Resolved(cls, dat, self, entry, Resolve(cls, j, sub.ret))

\* the body of  for i,entry in enumerate(data[2:])
DispatchOne(cls, dat, self, j, entry) ==
    Keyed(cls, dat, self, j, entry, Subkey(entry))

\* for k in bools: if k not in self._value: self._value[k] = SexpDefaultTrue(k,False)
DefaultBoolsNone(d, ks) == d

RECURSIVE DefaultBools(_, _)
DefaultBools(d, ks) ==
    IF ks = <<>> THEN d
    ELSE DefaultBools(
             IF HasKey(d, StrVal(Head(ks))) THEN d
             ELSE SetItem(d, StrVal(Head(ks)),
                          SexpDefaultTrue(AtomElem(Head(ks)), FALSE).ret),
             Tail(ks))

\* after the turn t of child j: an exception that escapes ends the loop
Continue(cls, dat, t, j, entries) ==
    IF t.escaped THEN [value |-> t.value, err |-> t.err, escaped |-> TRUE]
    ELSE Loop(cls, dat, [value |-> t.value, err |-> t.err, escaped |-> FALSE],
              j + 1, entries)

\* the loop from child j on
Loop(cls, dat, self, j, entries) ==
    IF j >= Len(entries) THEN [self EXCEPT !.escaped = FALSE]
    ELSE Continue(cls, dat, DispatchOne(cls, dat, self, j, entries[j + 1]),
                  j, entries)

\* the constructor's end, the loop done
Constructed(cls, dat, done) ==
    IF done.escaped THEN Raise("escaped")
    ELSE Return([cls |-> "SexpParser", key |-> KeyOf(PyItem(dat, 1)),
                 value |-> DefaultBools(done.value, cls.bools),
                 err |-> done.err])

\* SexpParser(data) for a parser of class cls: the node, or the exception that
\* leaves the constructor
SexpParser(cls, dat) ==
    IF dat.k = "line" THEN Raise("has no attribute __getitem__")
    ELSE IF PyLen(dat) < 2 THEN Raise("index out of range")
    ELSE Constructed(cls, dat,
             Loop(cls, dat, [value |-> EmptyDict, err |-> <<>>, escaped |-> FALSE],
                  0, PyFrom2(dat)))

(***************************************************************************)
(* SexpParser._getError and getSexpError                                   *)
(***************************************************************************)
\* getattr(v, '_getError', None) is not None
HasGetError(v) == "cls" \in DOMAIN v /\ v.cls = "SexpParser"

\* iter(self._value): iterating a dict yields its keys
IterDict(d) == [j \in 1..Len(d.items) |-> d.items[j].key]

\* the loop of _getError: for a v with no _getError, continue; for one that
\* has it, r += p() fails on the unbound name r and the bare except swallows
\* that; ret is left as it was both ways
RECURSIVE GetErrorLoop(_, _)
GetErrorLoop(vs, ret) ==
    IF vs = <<>> THEN ret
    ELSE IF ~HasGetError(Head(vs)) THEN GetErrorLoop(Tail(vs), ret)
    ELSE GetErrorLoop(Tail(vs), ret)

getError(node) == GetErrorLoop(IterDict(node.value), <<>>) \o node.err

getSexpError(node) == getError(node)

(***************************************************************************)
(* Building one root node, one action per child of the root                *)
(***************************************************************************)
MaxChildren == 3

\* the indices that may carry a _pos<i>_parse
PosIndices == {0}

Keys == {<<"K">>, <<"F">>}

RootKey == <<"r">>

\* _default_bools in each order its set may iterate
BoolOrders == {<<>>, <<<<"K">>>>, <<<<"F">>>>, <<<<"K">>, <<"F">>>>, <<<<"F">>, <<"K">>>>}

Classes ==
    [pos : SUBSET PosIndices, parse1 : SUBSET Keys, parse : SUBSET Keys,
     bools : BoolOrders, strict : BOOLEAN]

\* the children of the root: bare atoms, (K F), (F K) and (K (K F))
ChildPool ==
    {AtomElem(<<"K">>), AtomElem(<<"F">>),
     ListElem(<<LineElem(0), AtomElem(<<"K">>), AtomElem(<<"F">>)>>),
     ListElem(<<LineElem(0), AtomElem(<<"F">>), AtomElem(<<"K">>)>>),
     ListElem(<<LineElem(0), AtomElem(<<"K">>),
                ListElem(<<LineElem(0), AtomElem(<<"K">>), AtomElem(<<"F">>)>>)>>)}

Children == PyFrom2(data)

BuildInit ==
    /\ schema \in Classes
    /\ \E cs \in TextsUpTo(ChildPool, MaxChildren) :
           data = ListElem(<<LineElem(0), AtomElem(RootKey)>> \o cs)
    /\ i = 0
    /\ value = EmptyDict
    /\ err = <<>>
    /\ hist = <<>>
    /\ bpc = "loop"
    /\ errors = <<>>
    /\ input = <<>> /\ sexp = <<>> /\ lines = <<>> /\ pos = 0 /\ stack = <<>>
    /\ out = <<>> /\ pc = "idle" /\ result = NoResult
    /\ rpc = "idle" /\ root = NoResult /\ written = <<>> /\ again = NoResult
    /\ parent = NoResult /\ ops = <<>> /\ got = NoResult

\* one turn of  for i,entry in enumerate(data[2:])
Dispatch ==
    /\ bpc = "loop"
    /\ i < Len(Children)
    /\ LET t == DispatchOne(schema, data, [value |-> value, err |-> err], i,
                            Children[i + 1])
       IN  /\ value' = t.value
           /\ err' = t.err
           /\ hist' = Append(hist, [rule |-> t.rule, action |-> t.action,
                                    raised |-> t.raised])
           /\ bpc' = IF t.escaped THEN "raised" ELSE "loop"
    /\ i' = i + 1
    /\ UNCHANGED <<schema, data, errors, tokVars, roundVars, nodeVars>>

\* the loop is over: the missing _default_bools are set to False and the
\* constructor returns
Finish ==
    /\ bpc = "loop"
    /\ i = Len(Children)
    /\ value' = DefaultBools(value, schema.bools)
    /\ bpc' = "done"
    /\ UNCHANGED <<schema, data, i, err, hist, errors, tokVars, roundVars, nodeVars>>

\* the node the constructor returned
Root == [cls |-> "SexpParser", key |-> KeyOf(PyItem(data, 1)), value |-> value,
         err |-> err]

\* getSexpError(root)
Query ==
    /\ bpc = "done"
    /\ errors' = getSexpError(Root)
    /\ bpc' = "queried"
    /\ UNCHANGED <<schema, data, i, value, err, hist, tokVars, roundVars, nodeVars>>

BuildNext == Dispatch \/ Finish \/ Query

SpecDispatch == BuildInit /\ [][BuildNext]_vars

(***************************************************************************)
(* Export                                                                  *)
(***************************************************************************)
Indent == <<" ", " ">>

\* repr() of a list-based S-expression, as '{}'.format writes a list
RECURSIVE Repr(_)
RECURSIVE ReprItems(_)
ReprItems(es) ==
    IF es = <<>> THEN <<>>
    ELSE Repr(Head(es)) \o (IF Len(es) > 1 THEN <<",", " ">> ELSE <<>>)
         \o ReprItems(Tail(es))

Repr(el) ==
    IF el.k = "line" THEN Format(IntVal(el.n))
    ELSE IF el.k = "atom" THEN <<"'">> \o el.s \o <<"'">>
    ELSE <<"[">> \o ReprItems(el.e) \o <<"]">>

\* ' {}'.format(v) of a value that has no _export
WriteValue(v) ==
    <<" ">> \o (IF v.t = "raw" THEN Repr(v.el)
                ELSE IF v.t = "pylist"
                THEN <<"[">> \o ReprItems([j \in 1..Len(v.items) |->
                                            IF v.items[j].t = "raw" THEN v.items[j].el
                                            ELSE AtomElem(Format(v.items[j]))])
                     \o <<"]">>
                ELSE Format(v))

\* getattr(x, '_export', None) is not None: x is a node
HasExport(x) == "cls" \in DOMAIN x

\* A character outside ASCII, in text given as unicode: '{}'.format of such
\* text raises UnicodeEncodeError, and so does writing it to a file.
NonAscii == "U+00E9"

Unwritable(text) == \E j \in 1..Len(text) : text[j] = NonAscii

\* what a call wrote to out, and whether an exception left it
Written(text) == [raised |-> FALSE, out |-> text]
Failed(text) == [raised |-> TRUE, out |-> text]

\* out.write(...format(...)): nothing is written when it raises
Write(text) == IF Unwritable(text) THEN Failed(<<>>) ELSE Written(text)

RECURSIVE Export(_, _)
RECURSIVE ExportEach(_, _)

\* Sexpression._exportValue(out, v, prefix, indent)
ExportValue(v, prefix) ==
    IF HasExport(v) THEN Export(v, prefix) ELSE Write(WriteValue(v))

\* the loop goes on to the values left only if the first raised nothing
ExportRest(first, vs, prefix) ==
    IF first.raised THEN first
    ELSE [raised |-> ExportEach(vs, prefix).raised,
          out |-> first.out \o ExportEach(vs, prefix).out]

\* for v in ...: self._exportValue(out, v, prefix, indent)
ExportEach(vs, prefix) ==
    IF vs = <<>> THEN Written(<<>>)
    ELSE ExportRest(ExportValue(Head(vs), prefix), Tail(vs), prefix)

\* the values that the body of _export iterates over
Iterated(v) ==
    IF v.t = "dict" THEN [j \in 1..Len(v.items) |-> v.items[j].node] ELSE v.items

\* the try block of Sexpression._export
ExportTry(node, prefix) ==
    IF HasExport(node.value) THEN Export(node.value, prefix)
    ELSE IF node.value.t \in {"pylist", "dict", "nodes"}
    THEN ExportEach(Iterated(node.value), prefix)
    ELSE Write(WriteValue(node.value))

\* except Exception: the error is logged and the export goes on
ExportCaught(tried) == Written(tried.out)

\* the key was written: the value, then the closing bracket
ExportBody(node, prefix, named, head) ==
    IF head.raised THEN head
    ELSE Written(head.out
                 \o ExportCaught(ExportTry(node, IF named THEN prefix \o Indent
                                                 ELSE prefix)).out
                 \o (IF named THEN <<")">> ELSE <<>>))

\* node._export(out, prefix, indent): the text written to out, and whether an
\* exception left the call
Export(node, prefix) ==
    IF node.cls = "SexpList" THEN ExportEach(node.value.items, prefix)
    ELSE IF node.cls = "SexpDefaultTrue"
    THEN (IF ~node.value.b THEN Written(<<>>)
          ELSE IF node.key.t # "str" THEN Failed(<<>>)
          ELSE Write(<<" ">> \o node.key.s))
    ELSE IF node.value = None THEN Write(<<" ">> \o Format(node.key))
    ELSE ExportBody(node, prefix, node.key.t = "str",
                    IF node.key.t = "str"
                    THEN Write(<<"\n">> \o prefix \o <<"(">> \o node.key.s)
                    ELSE Written(<<>>))

\* exportSexp(sexp, out) for a node
exportSexp(node) == Export(node, <<>>)

(***************************************************************************)
(* Round trip: parseSexp, SexpParser with no handlers, exportSexp,         *)
(* parseSexp                                                               *)
(***************************************************************************)
MaxRound == 6

RoundAlphabet == {"(", ")", " ", "a", "0", "."}

RoundInit ==
    /\ input \in TextsUpTo(RoundAlphabet, MaxRound)
    /\ sexp = join(splitlines(input))
    /\ lines = LineEnds(splitlines(input), 0)
    /\ pos = 0 /\ stack = <<>> /\ out = <<>> /\ pc = "scan" /\ result = NoResult
    /\ schema = PlainSexpParser /\ data = NoResult /\ i = 0 /\ value = NoResult
    /\ err = <<>> /\ hist = <<>> /\ bpc = "idle" /\ errors = <<>>
    /\ rpc = "call" /\ root = NoResult /\ written = <<>> /\ again = NoResult
    /\ parent = NoResult /\ ops = <<>> /\ got = NoResult

\* parseSexp(input), all of its loop
Tokenize ==
    /\ rpc = "call"
    /\ SetScanner(ScanAll(sexp, lines, Scanner))
    /\ rpc' = IF ScanAll(sexp, lines, Scanner).pc = "returned" THEN "tokenized"
              ELSE "raised"
    /\ UNCHANGED <<input, sexp, lines, buildVars, root, written, again, nodeVars>>

\* SexpParser(result): the whole constructor
BuildPlain ==
    /\ rpc = "tokenized"
    /\ LET b == SexpParser(schema, result)
       IN  IF b.raised
           THEN rpc' = "raised" /\ root' = root
           ELSE rpc' = "built" /\ root' = b.ret
    /\ UNCHANGED <<tokVars, buildVars, written, again, nodeVars>>

\* exportSexp(root, out)
ExportRoot ==
    /\ rpc = "built"
    /\ written' = exportSexp(root).out
    /\ rpc' = IF exportSexp(root).raised THEN "raised" ELSE "exported"
    /\ UNCHANGED <<tokVars, buildVars, root, again, nodeVars>>

\* parseSexp(written)
Reparse ==
    /\ rpc = "exported"
    /\ again' = parseSexp(written)
    /\ rpc' = "reparsed"
    /\ UNCHANGED <<tokVars, buildVars, root, written, nodeVars>>

RoundNext == Tokenize \/ BuildPlain \/ ExportRoot \/ Reparse

SpecRound == RoundInit /\ [][RoundNext]_vars

\* C7: for every well-bracketed input, tokenizing it, building it with the
\* generic fallback coercion and exporting the result gives text that
\* tokenizes to an equivalent S-expression: the same nesting, the same order
\* of keys and children, every atom equal to its original; only white space
\* and line numbers may differ.  (Stated for the inputs whose token tree has
\* a line number and a key in every list.)
C7_RoundTrip ==
    rpc = "reparsed" /\ WellFormed(result) =>
        /\ again.pc = "returned"
        /\ StripLines(again.result) = StripLines(result)

(***************************************************************************)
(* Properties of SexpParser                                                *)
(***************************************************************************)
Built == bpc \in {"done", "queried"}

\* the key under which child n (one-based) is looked up; every child of the
\* pool is an atom or a list whose key is an atom
SubkeyOf(n) == IF Children[n].k = "atom" THEN Children[n].s ELSE Children[n].e[2].s

HasPos(n) == (n - 1) \in schema.pos

IsFlag(k) == k \in Range(schema.bools)

\* the elements of seq at the indices of set S, in order
RECURSIVE Pick(_, _, _)
Pick(seq, S, n) ==
    IF n > Len(seq) THEN <<>>
    ELSE (IF n \in S THEN <<seq[n]>> ELSE <<>>) \o Pick(seq, S, n + 1)

Min(S) == CHOOSE x \in S : \A y \in S : x <= y

\* C1: the handler of the child at index i with key k is chosen by first
\* match in the order _pos<i>_parse (DynamicGroup, action 3), _parse1_<k>
\* (UniqueOrError, 1), _parse_<k> (AlwaysGroup, 2), k in _default_bools
\* (UniqueOrError, 1), the fallback _parse (DynamicGroup, 3); a lower rule is
\* never applied when a higher one matches, whatever handlers are present.
C1_FirstMatchWins ==
    \A n \in 1..Len(hist) :
        LET k == SubkeyOf(n)
            h == hist[n]
        IN  /\ HasPos(n) => h.rule = 1 /\ h.action = 3
            /\ ~HasPos(n) /\ k \in schema.parse1 => h.rule = 2 /\ h.action = 1
            /\ ~HasPos(n) /\ k \notin schema.parse1 /\ k \in schema.parse =>
                  h.rule = 3 /\ h.action = 2
            /\ ~HasPos(n) /\ k \notin schema.parse1 /\ k \notin schema.parse /\ IsFlag(k) =>
                  h.rule = 4 /\ h.action = 1
            /\ ~HasPos(n) /\ k \notin schema.parse1 /\ k \notin schema.parse /\ ~IsFlag(k) =>
                  h.rule = 5 /\ h.action = 3

\* three children were dispatched by a class where several rules match each:
\* the first by position though _parse1_K matches, the second by _parse1_K
\* though _parse_K and _default_bools match, the third by _parse_F though
\* _default_bools matches
C1_Witness ==
    /\ Built
    /\ Len(hist) = 3
    /\ SubkeyOf(1) = <<"K">> /\ SubkeyOf(2) = <<"K">> /\ SubkeyOf(3) = <<"F">>
    /\ <<"K">> \in schema.parse1 /\ <<"K">> \in schema.parse /\ IsFlag(<<"K">>)
    /\ <<"F">> \notin schema.parse1 /\ <<"F">> \in schema.parse /\ IsFlag(<<"F">>)
    /\ hist[1].rule = 1 /\ hist[2].rule = 2 /\ hist[3].rule = 3

\* the children keyed k for which _parse1_<k> is called and returns a node
Unique(k) ==
    {n \in 1..Len(Children) :
        /\ ~HasPos(n)
        /\ Children[n].k = "list"
        /\ SubkeyOf(n) = k
        /\ Len(Children[n].e) = 3}

IsDuplicateOf(e, k) ==
    /\ e.msg = "duplicate key"
    /\ e.entry.k = "list"
    /\ e.entry.e[2] = AtomElem(k)

\* C2: given a required-unique handler for K that returns a node keyed K, when
\* K occurs two or more times among the children of one parent, the parent's
\* error list holds a duplicate-key error for each occurrence after the first
\* and the slot of K still holds the node of the first occurrence, not
\* overwritten and not turned into a group.
C2_DuplicateIsError ==
    Built =>
        \A k \in schema.parse1 :
            Cardinality(Unique(k)) >= 2 =>
                /\ SelectSeq(err, LAMBDA e : IsDuplicateOf(e, k))
                     = [n \in 1..(Cardinality(Unique(k)) - 1) |->
                           ErrorOf("duplicate key",
                                   Pick(Children, Unique(k) \ {Min(Unique(k))}, 1)[n],
                                   data)]
                /\ HasKey(value, StrVal(k))
                /\ GetItem(value, StrVal(k))
                     = Sexpression(StrVal(k),
                                   ListVal(<<ValueOf(Children[Min(Unique(k))].e[3])>>))

\* K occurred three times under _parse1_K, the occurrences not all alike
C2_Witness ==
    /\ Built
    /\ Cardinality(Unique(<<"K">>)) = 3
    /\ <<"K">> \in schema.parse1
    /\ Children[1] # Children[2]

\* the children keyed k that _parse_<k>, a nested parser, is called for and
\* returns a node for
Grouped(k) ==
    {n \in 1..Len(Children) :
        ~HasPos(n) /\ Children[n].k = "list" /\ SubkeyOf(n) = k}

\* C3: given an always-group handler for K, the slot of K is a SexpList that
\* holds exactly the nodes of all occurrences of K in source order; with one
\* occurrence it is a group of length one, never a bare node.
C3_AlwaysGroup ==
    Built =>
        \A k \in schema.parse \ schema.parse1 :
            Grouped(k) # {} =>
                /\ HasKey(value, StrVal(k))
                /\ GetItem(value, StrVal(k)).cls = "SexpList"
                /\ GetItem(value, StrVal(k)).key = StrVal(k)
                /\ GetItem(value, StrVal(k)).value.items
                     = [n \in 1..Cardinality(Grouped(k)) |->
                           SexpParser(schema, Pick(Children, Grouped(k), 1)[n]).ret]

\* a single occurrence of K under _parse_K was stored as a group of one
C3_Witness ==
    /\ Built
    /\ <<"K">> \in schema.parse \ schema.parse1
    /\ Cardinality(Grouped(<<"K">>)) = 1
    /\ Len(GetItem(value, StrVal(<<"K">>)).value.items) = 1

FlagNode(f, b) == [cls |-> "SexpDefaultTrue", key |-> StrVal(f), value |-> BoolVal(b)]

\* the bare atom f is among the children and no handler of the class claims it
FlagGiven(f) ==
    \E n \in 1..Len(Children) :
        /\ Children[n] = AtomElem(f)
        /\ ~HasPos(n)
        /\ f \notin schema.parse1 \cup schema.parse

FlagAbsent(f) == \A n \in 1..Len(Children) : SubkeyOf(n) # f

\* C4: for a key F of _default_bools, after the build: if the bare atom F is
\* among the children (and is left to the default-boolean rule) the node has a
\* child keyed F with value True; if F does not appear in the input it has a
\* child keyed F with value False; present in both cases without a handler.
C4_DefaultBools ==
    Built =>
        \A f \in Range(schema.bools) :
            /\ FlagGiven(f) =>
                  HasKey(value, StrVal(f)) /\ GetItem(value, StrVal(f)) = FlagNode(f, TRUE)
            /\ FlagAbsent(f) =>
                  HasKey(value, StrVal(f)) /\ GetItem(value, StrVal(f)) = FlagNode(f, FALSE)

\* one flag was given, twice, and the other flag was absent
C4_Witness ==
    /\ Built
    /\ Len(schema.bools) = 2
    /\ FlagGiven(<<"F">>) /\ FlagAbsent(<<"K">>)
    /\ Len(Children) = 3
    /\ GetItem(value, StrVal(<<"K">>)) = FlagNode(<<"K">>, FALSE)

Raisers == {n \in 1..Len(hist) : hist[n].raised}

\* C5: an exception raised while resolving or invoking the handler of a child,
\* or while storing its result, never aborts the build: one error record naming
\* that child is appended, every later sibling is dispatched, the constructor
\* returns; the error records are as many as the children that raised.
C5_ErrorsDoNotAbort ==
    /\ bpc # "raised"
    /\ Len(hist) = i
    /\ Len(err) = Cardinality(Raisers)
    /\ [n \in 1..Len(err) |-> err[n].entry] = Pick(Children, Raisers, 1)
    /\ Built => Len(hist) = Len(Children)

\* the first child raised in its handler, the second was stored, the third
\* raised when stored, and the constructor returned
C5_Witness ==
    /\ Built
    /\ Len(hist) = 3
    /\ hist[1].raised /\ ~hist[2].raised /\ hist[3].raised
    /\ err[1].msg # "duplicate key"
    /\ err[2].msg = "duplicate key"

\* the nodes held by a SexpValueDict, the members of its SexpLists included
ChildNodes(d) ==
    UNION {IF d.items[n].node.cls = "SexpList"
           THEN Range(d.items[n].node.value.items)
           ELSE {d.items[n].node} : n \in 1..Len(d.items)}

\* the errors of a parser node and of the parser nodes below it
RECURSIVE AllErrors(_)
AllErrors(node) ==
    IF ~HasGetError(node) THEN {}
    ELSE Range(node.err) \cup UNION {AllErrors(c) : c \in ChildNodes(node.value)}

\* C6: the error query on a built node returns the node's own errors and the
\* errors of every descendant parser node at any depth.
C6_ErrorsOfDescendants ==
    bpc = "queried" => \A e \in AllErrors(Root) : e \in Range(errors)

(***************************************************************************)
(* A node after its construction: lookups and exports                      *)
(***************************************************************************)
\* isinstance(x, Sexpression)
IsSexpression(x) == "cls" \in DOMAIN x

\* hasattr(v, '__get__'): of the nodes, SexpBool and SexpDefaultTrue define it
HasGet(v) == v.cls = "SexpDefaultTrue"

\* hasattr(x, '__getitem__'): str, list and dict have it; None, int, float
\* and bool have not
HasGetItem(x) == x.t \in {"str", "pylist", "dict", "nodes", "raw"}

\* the value by its kind: __get__ gives bool(self), a value that cannot be
\* indexed is given itself, anything else stays in its node
Unwrapped(v) ==
    IF HasGet(v) THEN Return(v.value)
    ELSE IF IsSexpression(v) /\ ~HasGetItem(v.value) THEN Return(v.value)
    ELSE Return(v)

\* Sexpression.__getitem__(key) of a node whose _value is a SexpValueDict
getitem(nd, key) ==
    IF ~HasKey(nd.value, key) THEN Raise("KeyError")
    ELSE Unwrapped(GetItem(nd.value, key))

\* except KeyError: pass; raise AttributeError
AttributeOr(r) == IF r.raised THEN Raise("AttributeError") ELSE r

\* Sexpression.__getattr__(name), called for a name that is no attribute
getattr(nd, name) ==
    IF name # <<>> /\ name[1] = "_" THEN Raise("AttributeError")
    ELSE AttributeOr(getitem(nd, StrVal(name)))

MaxKids == 3

\* (K (F a)) built by the plain SexpParser: a node that is no leaf
NestedNode ==
    SexpParser(PlainSexpParser,
               ListElem(<<LineElem(0), AtomElem(<<"K">>),
                          ListElem(<<LineElem(0), AtomElem(<<"F">>),
                                     AtomElem(<<"a">>)>>)>>)).ret

\* the children given to the node: leaves of every scalar type, a nested
\* node, a node of a key alone, and nodes whose key or value holds a
\* character outside ASCII
KidPool ==
    {Sexpression(None, StrVal(<<"a">>)),
     Sexpression(StrVal(<<"K">>), StrVal(<<"a">>)),
     Sexpression(StrVal(<<"I">>), IntVal(1)),
     Sexpression(StrVal(<<"D">>), FloatVal(FALSE, 1, <<"5">>)),
     SexpDefaultTrue(AtomElem(<<"F">>), TRUE).ret,
     NestedNode,
     Sexpression(StrVal(<<"G">>), None),
     Sexpression(StrVal(<<NonAscii>>), None),
     Sexpression(StrVal(<<NonAscii>>), StrVal(<<"a">>)),
     Sexpression(StrVal(<<"V">>), StrVal(<<NonAscii>>)),
     SexpDefaultTrue(AtomElem(<<NonAscii>>), TRUE).ret}

LookupKeys ==
    {StrVal(<<"K">>), StrVal(<<"I">>), StrVal(<<"D">>), StrVal(<<"F">>),
     StrVal(<<"G">>), IntVal(0)}

LookupNames == {<<"K">>, <<"I">>, <<"F">>, <<"_", "K">>}

EmptyNode ==
    [cls |-> "SexpParser", key |-> StrVal(RootKey), value |-> EmptyDict, err |-> <<>>]

NodeInit ==
    /\ parent = EmptyNode
    /\ ops = <<>>
    /\ got = NoResult
    /\ input = <<>> /\ sexp = <<>> /\ lines = <<>> /\ pos = 0 /\ stack = <<>>
    /\ out = <<>> /\ pc = "idle" /\ result = NoResult
    /\ schema = NoResult /\ data = NoResult /\ i = 0 /\ value = NoResult
    /\ err = <<>> /\ hist = <<>> /\ bpc = "idle" /\ errors = <<>>
    /\ rpc = "idle" /\ root = NoResult /\ written = <<>> /\ again = NoResult

\* the call made and what came of it
Inserted(sx, action, r) ==
    /\ parent' = [parent EXCEPT !.value = r.d]
    /\ ops' = Append(ops, [op |-> "add", action |-> action, given |-> sx,
                           raised |-> r.raised])

\* self._addValue(sexp, action) with the policies that group
Insert ==
    /\ got = NoResult
    /\ Len(ops) < MaxKids
    /\ \E sx \in KidPool, action \in {2, 3} :
           Inserted(sx, action, add(parent.value, sx, action))
    /\ UNCHANGED <<got, tokVars, buildVars, roundVars>>

\* parent[key]
LookupItem ==
    /\ got = NoResult
    /\ \E key \in LookupKeys :
           got' = [op |-> "getitem", key |-> key, res |-> getitem(parent, key)]
    /\ UNCHANGED <<parent, ops, tokVars, buildVars, roundVars>>

\* parent.name
LookupAttr ==
    /\ got = NoResult
    /\ \E name \in LookupNames :
           got' = [op |-> "getattr", key |-> StrVal(name),
                   res |-> getattr(parent, name)]
    /\ UNCHANGED <<parent, ops, tokVars, buildVars, roundVars>>

\* exportSexp(parent, out)
ExportNode ==
    /\ got = NoResult
    /\ got' = [op |-> "export", res |-> exportSexp(parent)]
    /\ UNCHANGED <<parent, ops, tokVars, buildVars, roundVars>>

NodeNext == Insert \/ LookupItem \/ LookupAttr \/ ExportNode

SpecNode == NodeInit /\ [][NodeNext]_vars

\* a child whose value is a scalar
Leaf(v) == v.value.t \in {"str", "int", "float", "bool"}

\* a child that holds children of its own
Holder(v) == v.cls = "SexpList" \/ v.value.t = "dict"

Looked == got # NoResult /\ got.op \in {"getitem", "getattr"}

\* C11: a lookup by key or by name of a child that is a leaf returns the
\* child's scalar itself, for a string, an integer, a float and a boolean; it
\* returns the nested node or group when the child holds children.
C11_LookupReturnsScalar ==
    Looked /\ HasKey(parent.value, got.key) =>
        /\ ~got.res.raised
        /\ Leaf(GetItem(parent.value, got.key)) =>
               got.res.ret = GetItem(parent.value, got.key).value
        /\ Holder(GetItem(parent.value, got.key)) =>
               got.res.ret = GetItem(parent.value, got.key)

\* what each value writes when exported by itself, one after another
RECURSIVE EachAlone(_, _)
EachAlone(vs, prefix) ==
    IF vs = <<>> THEN <<>>
    ELSE ExportValue(Head(vs), prefix).out \o EachAlone(Tail(vs), prefix)

Exported == got # NoResult /\ got.op = "export"

KeyGiven(d, sx) == IF sx.key = None THEN IntVal(d.idx) ELSE sx.key

\* Sexpression.__setitem__(key, value); add is called with its default action
setitem(d, key, val) ==
    IF ~IsSexpression(val) THEN add(d, Sexpression(key, val), 3)
    ELSE IF val.key # key THEN [raised |-> TRUE, msg |-> "key mismatch", d |-> d]
    ELSE add(d, val, 3)

\* the node that __setitem__ passes to add, if it passes one
Assigned(key, val) ==
    IF ~IsSexpression(val) THEN Sexpression(key, val)
    ELSE IF val.key # key THEN NoResult
    ELSE val

Without(d, key) ==
    [d EXCEPT !.items = SelectSeq(d.items, LAMBDA it : it.key # key)]

\* a deletion that also sets the counter back to a deleted positional key
delitemReuse(d, key) ==
    IF ~HasKey(d, key) THEN [raised |-> TRUE, msg |-> "KeyError", d |-> d]
    ELSE [raised |-> FALSE,
          d |-> [Without(d, key) EXCEPT !.idx = IF key.t = "int" THEN key.n ELSE @]]

\* Sexpression.__delitem__(key): del self._value[key]
delitem(d, key) ==
    IF ~HasKey(d, key) THEN [raised |-> TRUE, msg |-> "KeyError", d |-> d]
    ELSE [raised |-> FALSE, d |-> Without(d, key)]

MaxOps == 3

\* nodes without a key, with the key K and with the integer key 0
MapPool ==
    {Sexpression(None, StrVal(<<"a">>)),
     Sexpression(StrVal(<<"K">>), StrVal(<<"a">>)),
     Sexpression(StrVal(<<"K">>), IntVal(1)),
     Sexpression(IntVal(0), StrVal(<<"a">>))}

\* Overwrite, UniqueOrError, AlwaysGroup, DynamicGroup and an unknown action
Policies == 0..4

AssignKeys == {None, StrVal(<<"K">>)}

AssignValues == {IntVal(2), Sexpression(StrVal(<<"K">>), StrVal(<<"a">>))}

DeleteKeys == {StrVal(<<"K">>), IntVal(0)}

\* the call made and what came of it
Applied(op, action, given, key, r) ==
    /\ parent' = [parent EXCEPT !.value = r.d]
    /\ ops' = Append(ops, [op |-> op, action |-> action, given |-> given,
                           key |-> key, raised |-> r.raised])

\* parent._value.add(sexp, action)
Add ==
    /\ Len(ops) < MaxOps
    /\ \E sx \in MapPool, action \in Policies :
           Applied("add", action, sx, KeyGiven(parent.value, sx),
                   add(parent.value, sx, action))
    /\ UNCHANGED <<got, tokVars, buildVars, roundVars>>

\* parent[key] = val
Assign ==
    /\ Len(ops) < MaxOps
    /\ \E key \in AssignKeys, val \in AssignValues :
           Applied("setitem", 3, Assigned(key, val),
                   IF Assigned(key, val) = NoResult THEN key
                   ELSE KeyGiven(parent.value, Assigned(key, val)),
                   setitem(parent.value, key, val))
    /\ UNCHANGED <<got, tokVars, buildVars, roundVars>>

\* del parent[key]
Delete ==
    /\ Len(ops) < MaxOps
    /\ \E key \in DeleteKeys :
           Applied("delitem", 3, NoResult, key, delitem(parent.value, key))
    /\ UNCHANGED <<got, tokVars, buildVars, roundVars>>

MapNext == Add \/ Assign \/ Delete

SpecMap == NodeInit /\ [][MapNext]_vars

\* only AlwaysGroup and DynamicGroup insertions and keyed assignments so far
Grouping ==
    \A n \in 1..Len(ops) :
        ops[n].op \in {"add", "setitem"} /\ ops[n].action \in {2, 3}

\* the nodes inserted under key k, in the order of their insertion
InsertedUnder(k) ==
    LET calls == SelectSeq(ops, LAMBDA o : o.given # NoResult /\ o.key = k)
    IN  [n \in 1..Len(calls) |-> [calls[n].given EXCEPT !.key = k]]

\* whether the insertions under k were one DynamicGroup insertion and no more
SingleDynamic(k) ==
    LET calls == SelectSeq(ops, LAMBDA o : o.given # NoResult /\ o.key = k)
    IN  Len(calls) = 1 /\ calls[1].action = 3

\* the nodes reachable from a slot
Members(v) == IF v.cls = "SexpList" THEN v.value.items ELSE <<v>>

\* C13: under insertions that use only AlwaysGroup and DynamicGroup, keyed
\* assignment included, no inserted node is lost: each key has exactly one
\* slot, from which all nodes inserted under it are reachable in insertion
\* order; the slot is the bare node only after a single DynamicGroup
\* insertion, otherwise a SexpList holding all of them.
C13_GroupingLosesNothing ==
    Grouping =>
        /\ \A n \in 1..Len(ops) : ops[n].given # NoResult => ~ops[n].raised
        /\ \A a, b \in 1..Len(parent.value.items) :
               parent.value.items[a].key = parent.value.items[b].key => a = b
        /\ \A n \in 1..Len(ops) :
               ops[n].given # NoResult =>
                   /\ HasKey(parent.value, ops[n].key)
                   /\ Members(GetItem(parent.value, ops[n].key))
                        = InsertedUnder(ops[n].key)
                   /\ GetItem(parent.value, ops[n].key).cls # "SexpList"
                        <=> SingleDynamic(ops[n].key)

\* a node without a key was inserted, then K by assignment and K by
\* AlwaysGroup: the slot of K is a group of both
C13_Witness ==
    /\ Grouping
    /\ Len(ops) = MaxOps
    /\ ops[1].action = 3 /\ ops[1].given.key = None
    /\ ops[2].op = "setitem" /\ ops[2].key = StrVal(<<"K">>) /\ ~ops[2].raised
    /\ ops[3].op = "add" /\ ops[3].action = 2 /\ ops[3].key = StrVal(<<"K">>)
    /\ Len(Members(GetItem(parent.value, StrVal(<<"K">>)))) = 2

\* the calls that passed a node without a key to add
Unnamed == SelectSeq(ops, LAMBDA o : o.given # NoResult /\ o.given.key = None)

\* C14: after any insertions under any policies, failed insertions and
\* deletions, the n-th node inserted without a key has the integer key n-1;
\* the counter counts exactly those nodes, so it never decreases, named nodes
\* do not advance it, and no positional key is assigned twice, even after the
\* slot that held it was deleted.
C14_PositionalCounter ==
    /\ \A n \in 1..Len(Unnamed) : Unnamed[n].key = IntVal(n - 1)
    /\ parent.value.idx = Len(Unnamed)

\* a node without a key was inserted, its slot deleted, and another node
\* without a key inserted
C14_Witness ==
    /\ Len(ops) = 3
    /\ ops[1].op = "add" /\ ops[1].given.key = None /\ ~ops[1].raised
    /\ ops[2].op = "delitem" /\ ops[2].key = IntVal(0) /\ ~ops[2].raised
    /\ ops[3].given # NoResult /\ ops[3].given.key = None
    /\ ops[3].key = IntVal(1)

====
